---- MODULE Spec2Model ----
(***************************************************************************)
(* Model of the nextjs-graphql scaffold: the isomorphic Apollo client      *)
(* bootstrap (apollo/index.js), the request context factory                *)
(* (schema/context.ts), schema assembly (schema/index.ts), the Prisma data *)
(* model with its seed step, the /api/graphql handler and the Users page   *)
(* component (pages/index.tsx).                                            *)
(***************************************************************************)
EXTENDS Integers, Sequences, FiniteSets, TLC

(***************************************************************************)
(* Bounds of the model.                                                    *)
(***************************************************************************)
MaxClients == 2      \* Apollo clients created in one process
MaxCalls == 3        \* calls of initApolloClient / createContext that are logged
NumRequests == 2     \* getInitialProps invocations that may be in flight together

Requests == 1..NumRequests

\* Keys of normalised query results that an Apollo cache may hold.
CacheKeys == {"ROOT_QUERY.users"}

Null == 0                       \* JavaScript null for object handles (handles are 1, 2, ...)
Undefined == "undefined"        \* JavaScript undefined where the other values are strings

(***************************************************************************)
(* State.                                                                  *)
(***************************************************************************)
VARIABLES
    window,              \* TRUE iff a browser window object exists in this process
    ssr,                 \* the ssr option given to withApollo (default true)
    pageHasGIP,          \* TRUE iff PageComponent.getInitialProps is defined
    globalApolloClient,  \* apollo/index.js module variable: Null or a client handle
    clients,             \* every ApolloClient constructed so far; handle = index
    returned,            \* handles returned by the calls of initApolloClient, in order
    reqs,                \* the getInitialProps invocations, by request
    lastRender,          \* the latest render of WithApollo
    prismaClients,       \* number of PrismaClient objects constructed in this process
    prisma,              \* schema/context.ts module constant: the PrismaClient handle
    contexts,            \* the objects returned by createContext, in order
    schema,              \* the executable schema exported by schema/index.ts
    db,                  \* the database: users, posts and profiles tables
    clock,               \* the database clock, read by now()
    seedLog,             \* outcome of the latest run of prisma/seed.js
    response,            \* the latest response of the /api/graphql handler
    hook,                \* the result of useQuery(UserQuery) seen by Users
    rendered,            \* what Users returned for that result
    fetches              \* number of times the page's query has been sent

apolloVars == <<window, ssr, pageHasGIP, globalApolloClient, clients, returned, reqs, lastRender>>
dataVars == <<prismaClients, prisma, contexts, schema, db, clock, seedLog, response>>
pageVars == <<hook, rendered, fetches>>
vars == <<apolloVars, dataVars, pageVars>>

(***************************************************************************)
(* apollo/index.js                                                         *)
(***************************************************************************)

\* A serialized cache state as it is passed around: either undefined or an object.
NoState == [defined |-> FALSE, keys |-> {}]
StateOf(s) == [defined |-> TRUE, keys |-> s]
ApolloStates == {NoState} \cup {StateOf(s) : s \in SUBSET CacheKeys}

\* The default parameter `initialState = {}` of createApolloClient.
DefaultState(st) == IF st.defined THEN st.keys ELSE {}

\* The path the API handler is created with (pages/api/graphql.ts).
HandlerPath == "/api/graphql"

\* The schema file that makeSchema emits and loadSchemaSync reads.
SchemaFile == "apollo/schema.graphql"

\* apollo/schema.js: `const schema = loadSchemaSync(...)`, and no export statement.
ApolloSchemaModule == [bindings |-> {"schema"}, exports |-> {}, schema |-> SchemaFile]

\* `const { schema } = require('./schema')`: a name the module does not export
\* destructures to undefined.
RequireSchema ==
    IF "schema" \in ApolloSchemaModule.exports THEN ApolloSchemaModule.schema ELSE Undefined

\* createIsomorphLink(ctx); ctx is the request whose {res, req} it carries, 0 for {}.
createIsomorphLink(ctx) ==
    IF ~window
    THEN [kind |-> "SchemaLink", schema |-> RequireSchema, context |-> ctx,
          uri |-> Undefined, credentials |-> Undefined]
    ELSE [kind |-> "HttpLink", schema |-> Undefined, context |-> 0,
          uri |-> "/api/graphql", credentials |-> "same-origin"]

\* createApolloClient that drops its initialState: the cache starts empty.
createApolloClientEmptyCache(ctx, initialState) ==
    [ssrMode |-> ~window,
     link |-> createIsomorphLink(ctx),
     restored |-> {},
     cache |-> {}]

\* createApolloClient(ctx = {}, initialState = {}): the new client object.
createApolloClient(ctx, initialState) ==
    [ssrMode |-> ~window,
     link |-> createIsomorphLink(ctx),
     restored |-> DefaultState(initialState),
     cache |-> DefaultState(initialState)]

\* initApolloClient without the `if (!globalApolloClient)` test: the browser
\* creates a client on every call.
initApolloClientNoReuse(ctx, initialState) ==
    [client |-> Len(clients) + 1,
     clients |-> Append(clients, createApolloClient(ctx, initialState)),
     global |-> IF window THEN Len(clients) + 1 ELSE globalApolloClient]

\* initApolloClient without the `typeof window === 'undefined'` branch: the
\* server keeps and reuses one client as the browser does.
initApolloClientShared(ctx, initialState) ==
    IF globalApolloClient = Null
    THEN [client |-> Len(clients) + 1,
          clients |-> Append(clients, createApolloClient(ctx, initialState)),
          global |-> Len(clients) + 1]
    ELSE [client |-> globalApolloClient,
          clients |-> clients,
          global |-> globalApolloClient]

\* initApolloClient(ctx, initialState): the handle it returns and the module
\* state it leaves, as [client, clients, global].
initApolloClient(ctx, initialState) ==
    IF ~window
    THEN [client |-> Len(clients) + 1,
          clients |-> Append(clients, createApolloClient(ctx, initialState)),
          global |-> globalApolloClient]
    ELSE IF globalApolloClient = Null
         THEN [client |-> Len(clients) + 1,
               clients |-> Append(clients, createApolloClient(ctx, initialState)),
               global |-> Len(clients) + 1]
         ELSE [client |-> globalApolloClient,
               clients |-> clients,
               global |-> globalApolloClient]

\* A call creates a client unless the browser singleton exists already.
WouldCreate == ~window \/ globalApolloClient = Null

CanCall == Len(returned) < MaxCalls /\ (WouldCreate => Len(clients) < MaxClients)

IdleRequest ==
    [pc |-> "idle", client |-> Null, finished |-> FALSE, ranTree |-> FALSE,
     threw |-> FALSE, logged |-> FALSE, rewound |-> FALSE,
     result |-> "none", apolloState |-> NoState]

\* The tail of getInitialProps: `Extract query data from the Apollo store` and return.
ReturnWithState(rq, cs) ==
    [rq EXCEPT !.pc = "returned", !.result = "pagePropsAndApolloState",
               !.apolloState = StateOf(cs[rq.client].cache)]

\* AfterPageProps without the `ctx.res && ctx.res.finished` test.
AfterPagePropsNoFinishedCheck(rq, cs) ==
    IF ~window
    THEN IF ssr
         THEN [rq EXCEPT !.pc = "awaitTree"]
         ELSE ReturnWithState(rq, cs)
    ELSE ReturnWithState(rq, cs)

\* getInitialProps from the end of `Run wrapped getInitialProps methods` up to
\* its next await or its return.
AfterPageProps(rq, cs) ==
    IF ~window
    THEN IF rq.finished
         THEN [rq EXCEPT !.pc = "returned", !.result = "pageProps"]
         ELSE IF ssr
              THEN [rq EXCEPT !.pc = "awaitTree"]
              ELSE ReturnWithState(rq, cs)
    ELSE ReturnWithState(rq, cs)

\* WithApollo.getInitialProps exists only `if (ssr || PageComponent.getInitialProps)`.
HasGetInitialProps == ssr \/ pageHasGIP

\* getInitialProps(ctx) up to its first await.
GetInitialPropsStart(r) ==
    /\ HasGetInitialProps
    /\ reqs[r].pc = "idle"
    /\ CanCall
    /\ LET i == initApolloClient(r, NoState)
           rq == [IdleRequest EXCEPT !.client = i.client]
       IN /\ clients' = i.clients
          /\ globalApolloClient' = i.global
          /\ returned' = Append(returned, i.client)
          /\ reqs' = [reqs EXCEPT ![r] =
                        IF pageHasGIP THEN [rq EXCEPT !.pc = "awaitPageProps"]
                        ELSE AfterPageProps(rq, i.clients)]
    /\ UNCHANGED <<window, ssr, pageHasGIP, lastRender, dataVars, pageVars>>

\* `pageProps = await PageComponent.getInitialProps(ctx)` resolves; on the server
\* the page may have redirected, which finishes the response.
PageGetInitialPropsDone(r) ==
    /\ reqs[r].pc = "awaitPageProps"
    /\ \E fin \in (IF window THEN {FALSE} ELSE BOOLEAN) :
          reqs' = [reqs EXCEPT ![r] = AfterPageProps([@ EXCEPT !.finished = fin], clients)]
    /\ UNCHANGED <<window, ssr, pageHasGIP, globalApolloClient, clients, returned,
                   lastRender, dataVars, pageVars>>

\* The try block resolves or rejects: getDataFromTree renders AppTree with the
\* request's client as the apolloClient prop, the queries it runs write their
\* results to that client's cache, and an error is caught and logged. Then
\* Head.rewind(), cache.extract() and the return.
GetDataFromTreeDone(r) ==
    /\ reqs[r].pc = "awaitTree"
    /\ \E throws \in BOOLEAN, written \in SUBSET CacheKeys :
          LET c == reqs[r].client
              cs == [clients EXCEPT ![c].cache = @ \cup written]
          IN /\ clients' = cs
             /\ lastRender' = [client |-> c, prop |-> TRUE, apolloState |-> NoState]
             /\ reqs' = [reqs EXCEPT ![r] =
                           ReturnWithState([@ EXCEPT !.ranTree = TRUE, !.threw = throws,
                                                     !.logged = throws, !.rewound = TRUE], cs)]
    /\ UNCHANGED <<window, ssr, pageHasGIP, globalApolloClient, returned, dataVars, pageVars>>

\* The framework is done with a request's props; the slot serves the next request.
RequestEnd(r) ==
    /\ reqs[r].pc = "returned"
    /\ reqs' = [reqs EXCEPT ![r] = IdleRequest]
    /\ UNCHANGED <<window, ssr, pageHasGIP, globalApolloClient, clients, returned,
                   lastRender, dataVars, pageVars>>

\* The serialized states a render of WithApollo can be given: without
\* getInitialProps there is none; otherwise whatever a getInitialProps returned
\* (in the browser the first one comes from the server).
RenderStates == IF HasGetInitialProps THEN ApolloStates ELSE {NoState}

\* WithApollo({ apolloState, ...pageProps }) rendered without an apolloClient prop.
WithApolloRender ==
    /\ CanCall
    /\ \E st \in RenderStates :
          LET i == initApolloClient(0, st)
          IN /\ clients' = i.clients
             /\ globalApolloClient' = i.global
             /\ returned' = Append(returned, i.client)
             /\ lastRender' = [client |-> i.client, prop |-> FALSE, apolloState |-> st]
    /\ UNCHANGED <<window, ssr, pageHasGIP, reqs, dataVars, pageVars>>

\* A query of a rendered page completes and the client writes its result to the cache.
QueryResultCached ==
    /\ \E c \in 1..Len(clients), k \in CacheKeys :
          /\ k \notin clients[c].cache
          /\ clients' = [clients EXCEPT ![c].cache = @ \cup {k}]
    /\ UNCHANGED <<window, ssr, pageHasGIP, globalApolloClient, returned, reqs,
                   lastRender, dataVars, pageVars>>

NoRender == [client |-> Null, prop |-> FALSE, apolloState |-> NoState]

(***************************************************************************)
(* schema/context.ts                                                       *)
(***************************************************************************)

\* createContext that constructs a PrismaClient on every call.
createContextFresh ==
    [context |-> [prisma |-> prismaClients + 1], constructed |-> prismaClients + 1]

\* createContext(): the object it returns and the number of PrismaClient
\* objects constructed once it has returned.
createContext == [context |-> [prisma |-> prisma], constructed |-> prismaClients]

(***************************************************************************)
(* prisma/schema.prisma, prisma/seed.js                                    *)
(***************************************************************************)

MaxClock == 2        \* the database clock stops advancing here

JsonNull == "null"   \* null of a nullable String column; no column value is this string

\* The fields of each model of the datamodel.
PrismaModels ==
    [Post |-> {"id", "createdAt", "title", "content", "published", "author", "authorId"},
     Profile |-> {"id", "bio", "user", "userId"},
     User |-> {"id", "email", "name", "posts", "profile"}]

\* Post.published: Boolean @default(false)
PostPublishedDefault == FALSE

EmptyDb == [users |-> <<>>, posts |-> <<>>, profiles |-> <<>>]

\* The `data` argument of db.user.create in seed.js.
SeedData ==
    [name |-> "Alice", email |-> "alice@prisma.io",
     posts |-> [title |-> "Hello World"],
     profile |-> [bio |-> "I like turtles"]]

\* UserCreate without the unique index on User.email.
UserCreateNoUnique(d, data) ==
    LET uid == Len(d.users) + 1
    IN [ok |-> TRUE,
        db |-> [users |-> Append(d.users,
                             [id |-> uid, email |-> data.email, name |-> data.name]),
                posts |-> Append(d.posts,
                             [id |-> Len(d.posts) + 1, createdAt |-> clock,
                              title |-> data.posts.title, content |-> JsonNull,
                              published |-> FALSE, authorId |-> uid]),
                profiles |-> Append(d.profiles,
                             [id |-> Len(d.profiles) + 1, bio |-> data.profile.bio,
                              userId |-> uid])]]

\* db.user.create with one nested post and one nested profile, as one
\* transaction: the unique index on User.email rejects a duplicate; ids are
\* autoincremented; columns the data leaves out take their defaults.
UserCreate(d, data) ==
    IF \E i \in 1..Len(d.users) : d.users[i].email = data.email
    THEN [ok |-> FALSE, db |-> d]
    ELSE LET uid == Len(d.users) + 1
         IN [ok |-> TRUE,
             db |-> [users |-> Append(d.users,
                                  [id |-> uid, email |-> data.email, name |-> data.name]),
                     posts |-> Append(d.posts,
                                  [id |-> Len(d.posts) + 1, createdAt |-> clock,
                                   title |-> data.posts.title, content |-> JsonNull,
                                   published |-> PostPublishedDefault, authorId |-> uid]),
                     profiles |-> Append(d.profiles,
                                  [id |-> Len(d.profiles) + 1, bio |-> data.profile.bio,
                                   userId |-> uid])]]

\* The rows of a relation that belong to one user, in table order.
PostsOf(d, uid) == LET T(p) == p.authorId = uid IN SelectSeq(d.posts, T)
ProfilesOf(d, uid) == LET T(p) == p.userId = uid IN SelectSeq(d.profiles, T)

\* db.user.findMany({ include: { posts: true, profile: true } })
FindManyUsers(d) ==
    [i \in 1..Len(d.users) |->
        [user |-> d.users[i],
         posts |-> PostsOf(d, d.users[i].id),
         profile |-> ProfilesOf(d, d.users[i].id)]]

\* node prisma/seed.js: main() creates the user, then lists and prints all
\* users; a rejected create ends main() before the listing.
Seed ==
    /\ LET c == UserCreate(db, SeedData)
       IN /\ db' = c.db
          /\ seedLog' = IF c.ok THEN [status |-> "printed", at |-> clock,
                                      allUsers |-> FindManyUsers(c.db)]
                        ELSE [status |-> "rejected", at |-> clock, allUsers |-> <<>>]
    /\ UNCHANGED <<apolloVars, prismaClients, prisma, contexts, schema, clock, response,
                   pageVars>>

\* Time passes on the database clock.
Tick ==
    /\ clock < MaxClock
    /\ clock' = clock + 1
    /\ UNCHANGED <<apolloVars, prismaClients, prisma, contexts, schema, db, seedLog,
                   response, pageVars>>

(***************************************************************************)
(* schema/index.ts and the type definitions it imports                     *)
(***************************************************************************)

\* ./Query, ./Mutation, ./User, ./Profile, ./Post: the fields each definition
\* asks for; `model` marks a definition whose fields are t.model projections.
Query == [name |-> "Query", model |-> FALSE, fields |-> {"users"}]
Mutation == [name |-> "Mutation", model |-> FALSE, fields |-> {}]
User == [name |-> "User", model |-> TRUE,
         fields |-> {"id", "email", "name", "posts", "profile"}]
Profile == [name |-> "Profile", model |-> TRUE, fields |-> {"id", "bio", "user"}]
Post == [name |-> "Post", model |-> TRUE,
         fields |-> {"id", "createdAt", "title", "content", "published", "author"}]

\* nexusPrismaPlugin(): t.model.f exposes f only if the datamodel declares it.
nexusPrismaPlugin(def) ==
    IF def.model THEN def.fields \cap PrismaModels[def.name] ELSE def.fields

\* makeSchema that loses the last entry of `types`.
makeSchemaDropLast(types) ==
    [n \in {types[i].name : i \in 1..Len(types) - 1} |->
        LET def == CHOOSE t \in {types[i] : i \in 1..Len(types)} : t.name = n
        IN nexusPrismaPlugin(def)]

\* makeSchema({ types, plugins: [nexusPrismaPlugin()], ... }): the object types
\* of the schema, by name, each with the fields it exposes.
makeSchema(types) ==
    [n \in {types[i].name : i \in 1..Len(types)} |->
        LET def == CHOOSE t \in {types[i] : i \in 1..Len(types)} : t.name = n
        IN nexusPrismaPlugin(def)]

\* The default export of schema/index.ts.
SchemaExport == makeSchema(<<Query, Mutation, User, Profile, Post>>)

(***************************************************************************)
(* pages/api/graphql.ts                                                    *)
(***************************************************************************)

\* The `users` selections sent to the endpoint: the query of the README, the
\* page's UserQuery, and a query for a field no type declares.
FullQuery ==
    [name |-> "full", user |-> {"id", "email", "name", "posts", "profile"},
     posts |-> {"id", "title", "content", "published", "createdAt"},
     profile |-> {"id", "bio"}]
UserQuery ==
    [name |-> "USER", user |-> {"id", "email", "name", "posts"},
     posts |-> {"id", "title", "published"}, profile |-> {}]
UnknownFieldQuery ==
    [name |-> "unknown", user |-> {"id", "age"}, posts |-> {}, profile |-> {}]
Queries == {FullQuery, UserQuery, UnknownFieldQuery}

FieldsOf(sch, t) == IF t \in DOMAIN sch THEN sch[t] ELSE {}

\* Validation of a selection against the schema.
Valid(sch, q) ==
    /\ "users" \in FieldsOf(sch, "Query")
    /\ q.user \subseteq FieldsOf(sch, "User")
    /\ "posts" \in q.user => q.posts \subseteq FieldsOf(sch, "Post")
    /\ "profile" \in q.user => q.profile \subseteq FieldsOf(sch, "Profile")

PostObject(q, p) == [f \in q.posts |-> p[f]]
ProfileObject(q, p) == [f \in q.profile |-> p[f]]

\* One element of `users`: the selected columns, and the relations resolved
\* through the context's client. The nullable `profile` object is <<>> for
\* null and <<object>> otherwise.
UserObject(q, d, u) ==
    [f \in q.user |->
        CASE f = "posts" ->
                LET ps == PostsOf(d, u.id)
                IN [j \in 1..Len(ps) |-> PostObject(q, ps[j])]
          [] f = "profile" ->
                LET ps == ProfilesOf(d, u.id)
                IN IF ps = <<>> THEN <<>> ELSE <<ProfileObject(q, ps[1])>>
          [] OTHER -> u[f]]

\* Execution of a `users` query: the standard response envelope.
Execute(sch, q, d) ==
    IF Valid(sch, q)
    THEN [kind |-> "data", query |-> q.name,
          users |-> [i \in 1..Len(d.users) |-> UserObject(q, d, d.users[i])]]
    ELSE [kind |-> "errors", query |-> q.name, users |-> <<>>]

NoResponse == [kind |-> "none", query |-> "none", users |-> <<>>]

\* The handler serves one request: the server builds the context with
\* createContext and executes the query against the schema.
ApiGraphqlRequest(q) ==
    /\ Len(contexts) < MaxCalls
    /\ LET c == createContext
       IN /\ contexts' = Append(contexts, c.context)
          /\ prismaClients' = c.constructed
    /\ response' = Execute(schema, q, db)

ApiGraphql ==
    /\ \E q \in Queries : ApiGraphqlRequest(q)
    /\ UNCHANGED <<apolloVars, prisma, schema, db, clock, seedLog, pageVars>>

(***************************************************************************)
(* pages/index.tsx                                                         *)
(***************************************************************************)

MaxMounts == 2       \* times the page is mounted
MaxUsers == 2        \* users in a query result given to Users
MaxPosts == 2        \* posts of one user in such a result

NoData == [defined |-> FALSE, users |-> <<>>]
DataOf(us) == [defined |-> TRUE, users |-> us]

\* What useQuery returns while the query is in flight.
LoadingResult == [loading |-> TRUE, error |-> FALSE, data |-> NoData]

\* A JSX child: null renders as nothing.
Text(v) == IF v = JsonNull THEN "" ELSE v

\* PostLine with the two branches of the conditional exchanged.
PostLineSwapped(p) ==
    [key |-> p.id,
     text |-> "Post: \"" \o Text(p.title) \o "\" is "
              \o (IF p.published THEN "not published" ELSE "published") \o "."]

\* The <p> of one post.
PostLine(p) ==
    [key |-> p.id,
     text |-> "Post: \"" \o Text(p.title) \o "\" is "
              \o (IF p.published THEN "published" ELSE "not published") \o "."]

\* The <div> of one user.
UserBlock(u) ==
    [key |-> u.id,
     header |-> Text(u.name) \o " (" \o Text(u.email) \o ")",
     lines |-> [j \in 1..Len(u.posts) |-> PostLine(u.posts[j])]]

NotRendered == [kind |-> "none", text |-> "", blocks |-> <<>>]

\* Users(): what the component returns for a result of useQuery.
Users(h) ==
    IF h.loading THEN [kind |-> "p", text |-> "Loading...", blocks |-> <<>>]
    ELSE IF h.error THEN [kind |-> "p", text |-> "Error :(", blocks |-> <<>>]
    ELSE IF ~h.data.defined THEN [kind |-> "TypeError", text |-> "", blocks |-> <<>>]
    ELSE [kind |-> "list", text |-> "",
          blocks |-> [i \in 1..Len(h.data.users) |-> UserBlock(h.data.users[i])]]

\* The page is mounted in the browser: useQuery sends UserQuery.
PageMount ==
    /\ fetches < MaxMounts
    /\ fetches' = fetches + 1
    /\ hook' = LoadingResult
    /\ rendered' = Users(LoadingResult)
    /\ UNCHANGED <<apolloVars, dataVars>>

\* The page's query reaches the endpoint and the response comes back.
PageQueryCompletes ==
    /\ fetches > 0
    /\ hook.loading
    /\ ApiGraphqlRequest(UserQuery)
    /\ hook' = IF response'.kind = "data"
               THEN [loading |-> FALSE, error |-> FALSE, data |-> DataOf(response'.users)]
               ELSE [loading |-> FALSE, error |-> TRUE, data |-> NoData]
    /\ rendered' = Users(hook')
    /\ UNCHANGED <<apolloVars, prisma, schema, db, clock, seedLog, fetches>>

\* The page's query fails on the network.
PageQueryFails ==
    /\ fetches > 0
    /\ hook.loading
    /\ hook' = [loading |-> FALSE, error |-> TRUE, data |-> NoData]
    /\ rendered' = Users(hook')
    /\ UNCHANGED <<apolloVars, dataVars, fetches>>

\* Addresses of distinct users and the names and titles of drawn results.
Emails == <<"alice@prisma.io", "bob@prisma.io", "carol@prisma.io", "dave@prisma.io">>
Names == {"Alice", JsonNull}

PostLists(uid) ==
    UNION {{[j \in 1..n |-> [id |-> 10 * uid + j, title |-> "Hello World",
                            published |-> f[j]]] : f \in [1..n -> BOOLEAN]}
           : n \in 0..MaxPosts}

UserLists ==
    UNION {{[i \in 1..n |-> [id |-> i, email |-> Emails[i], name |-> f[i][1],
                            posts |-> f[i][2]]]
            : f \in {g \in [1..n -> Names \X PostLists(0)] : TRUE}}
           : n \in 0..MaxUsers}

\* The results useQuery can hand to the component: loading, error and data
\* vary independently, except that a result that is neither loading nor an
\* error carries data.
HookResults ==
    {h \in [loading : BOOLEAN, error : BOOLEAN,
            data : {NoData} \cup {DataOf(us) : us \in UserLists}] :
        (~h.loading /\ ~h.error) => h.data.defined}

\* Users is rendered with the result of useQuery.
UsersRender ==
    /\ rendered = NotRendered
    /\ rendered' = Users(hook)
    /\ UNCHANGED <<apolloVars, dataVars, hook, fetches>>

(***************************************************************************)
(* Specifications.                                                         *)
(***************************************************************************)

NoSeed == [status |-> "none", at |-> 0, allUsers |-> <<>>]

\* The state once the modules are loaded: schema/context.ts has constructed
\* its PrismaClient, schema/index.ts has built the schema, and
\* globalApolloClient is null.
Init ==
    /\ window \in BOOLEAN
    /\ ssr \in BOOLEAN
    /\ pageHasGIP \in BOOLEAN
    /\ globalApolloClient = Null
    /\ clients = <<>>
    /\ returned = <<>>
    /\ reqs = [r \in Requests |-> IdleRequest]
    /\ lastRender = NoRender
    /\ prismaClients = 1
    /\ prisma = 1
    /\ contexts = <<>>
    /\ schema = SchemaExport
    /\ db = EmptyDb
    /\ clock = 0
    /\ seedLog = NoSeed
    /\ response = NoResponse
    /\ hook = LoadingResult
    /\ rendered = Users(LoadingResult)
    /\ fetches = 0

\* The page of pages/index.tsx, withApollo(App), in the browser, about to
\* render Users with some result of useQuery.
InitRender ==
    /\ window = TRUE
    /\ ssr = TRUE
    /\ pageHasGIP = FALSE
    /\ globalApolloClient = Null
    /\ clients = <<>>
    /\ returned = <<>>
    /\ reqs = [r \in Requests |-> IdleRequest]
    /\ lastRender = NoRender
    /\ prismaClients = 1
    /\ prisma = 1
    /\ contexts = <<>>
    /\ schema = SchemaExport
    /\ db = EmptyDb
    /\ clock = 0
    /\ seedLog = NoSeed
    /\ response = NoResponse
    /\ hook \in HookResults
    /\ rendered = NotRendered
    /\ fetches = 1

\* The Apollo client bootstrap of one process.
Next ==
    \/ \E r \in Requests : GetInitialPropsStart(r)
    \/ \E r \in Requests : PageGetInitialPropsDone(r)
    \/ \E r \in Requests : GetDataFromTreeDone(r)
    \/ \E r \in Requests : RequestEnd(r)
    \/ WithApolloRender
    \/ QueryResultCached

Spec == Init /\ [][Next]_vars

\* The database, the endpoint and the page that queries it.
NextData ==
    \/ Seed
    \/ Tick
    \/ ApiGraphql
    \/ PageMount
    \/ PageQueryCompletes
    \/ PageQueryFails

SpecData == Init /\ [][NextData]_vars

\* The Users component over the results of useQuery.
NextRender == UsersRender

SpecRender == InitRender /\ [][NextRender]_vars

(***************************************************************************)
(* Properties.                                                             *)
(***************************************************************************)

\* C1: every client's link follows the environment: without a window it is a
\* SchemaLink bound to the schema of apollo/schema, with a window it is an
\* HttpLink to the path the API handler is created with.
C1_LinkByEnvironment ==
    \A c \in 1..Len(clients) :
        LET l == clients[c].link
        IN IF ~window
           THEN l.kind = "SchemaLink" /\ l.schema = ApolloSchemaModule.schema
           ELSE l.kind = "HttpLink" /\ l.uri = HandlerPath

\* C2: every context returned by createContext carries the one PrismaClient
\* constructed at module load, and no call constructs another.
C2_ContextSingleton ==
    /\ prismaClients = 1
    /\ \A i \in 1..Len(contexts) : contexts[i].prisma = prisma /\ contexts[i].prisma = 1

C2_Witness ==
    /\ Len(contexts) >= 3
    /\ response.kind = "data"
    /\ db.users # <<>>

\* C3: in the browser at most one client is ever created, it is stored in
\* globalApolloClient, and every call of initApolloClient returns it.
C3_BrowserSingleton ==
    window =>
        /\ Len(clients) <= 1
        /\ globalApolloClient = (IF clients = <<>> THEN Null ELSE 1)
        /\ \A i \in 1..Len(returned) : returned[i] = globalApolloClient /\ returned[i] # Null

C3_Witness ==
    /\ window
    /\ Len(returned) >= 3
    /\ \E r \in Requests : reqs[r].pc = "returned" /\ reqs[r].client = globalApolloClient
    /\ lastRender.client = globalApolloClient
    /\ ~lastRender.prop

\* C4: on the server every call of initApolloClient returns a client created
\* by that call, globalApolloClient stays null, and no two requests hold the
\* same client, however their handling interleaves.
C4_ServerFreshClient ==
    ~window =>
        /\ globalApolloClient = Null
        /\ Len(clients) = Len(returned)
        /\ \A i, j \in 1..Len(returned) : i # j => returned[i] # returned[j]
        /\ \A r1, r2 \in Requests :
              (r1 # r2 /\ reqs[r1].pc # "idle" /\ reqs[r2].pc # "idle")
                  => reqs[r1].client # reqs[r2].client

C4_Witness ==
    /\ ~window
    /\ \A r \in Requests : reqs[r].pc = "awaitTree"
    /\ \E c \in 1..Len(clients) : clients[c].cache # {}

\* C5: once the seed step has filled the empty database, the users query with
\* nested posts and profile answers with exactly the seeded user, its one post
\* (content null, published false) and its one profile.
C5_SeededUsersQuery ==
    [][(db.users # <<>> /\ response' # response /\ response'.query = "full")
          => (/\ response'.kind = "data"
              /\ Len(response'.users) = 1
              /\ response'.users[1].id = 1
              /\ response'.users[1].name = "Alice"
              /\ response'.users[1].email = "alice@prisma.io"
              /\ Len(response'.users[1].posts) = 1
              /\ response'.users[1].posts[1] =
                    [id |-> 1, title |-> "Hello World", content |-> JsonNull,
                     published |-> FALSE, createdAt |-> db.posts[1].createdAt]
              /\ response'.users[1].profile = <<[id |-> 1, bio |-> "I like turtles"]>>)]_vars

C5_Witness ==
    /\ seedLog.status = "printed"
    /\ response.query = "full"
    /\ response.kind = "data"
    /\ Len(response.users) = 1
    /\ clock > response.users[1].posts[1].createdAt

C7_FinishedPage ==
    (/\ ~hook.loading
     /\ ~hook.error
     /\ hook.data.defined
     /\ hook.data.users # <<>>)
        => (/\ rendered.kind = "list"
            /\ Len(rendered.blocks) = 1
            /\ rendered.blocks[1].header = "Alice (alice@prisma.io)"
            /\ Len(rendered.blocks[1].lines) = 1
            /\ rendered.blocks[1].lines[1].text = "Post: \"Hello World\" is published.")

\* C8: Users returns 'Loading...' whenever loading is set, 'Error :(' when
\* only error is set, and otherwise one block per user, in order, with the
\* line 'name (email)' and one line per post that says 'published' exactly
\* when the post's flag is true; an error is never shown together with data,
\* and rendering does not send the query again.
C8_ThreeOutcomes ==
    rendered # NotRendered =>
        /\ fetches = 1
        /\ hook.loading => rendered = [kind |-> "p", text |-> "Loading...", blocks |-> <<>>]
        /\ (~hook.loading /\ hook.error)
              => rendered = [kind |-> "p", text |-> "Error :(", blocks |-> <<>>]
        /\ (~hook.loading /\ ~hook.error)
              => /\ rendered.kind = "list"
                 /\ Len(rendered.blocks) = Len(hook.data.users)
                 /\ \A i \in 1..Len(hook.data.users) :
                       LET u == hook.data.users[i]
                           b == rendered.blocks[i]
                       IN /\ b.header = (IF u.name = JsonNull THEN "" ELSE u.name)
                                           \o " (" \o u.email \o ")"
                          /\ Len(b.lines) = Len(u.posts)
                          /\ \A j \in 1..Len(u.posts) :
                                b.lines[j].text =
                                    IF u.posts[j].published = TRUE
                                    THEN "Post: \"" \o u.posts[j].title \o "\" is published."
                                    ELSE "Post: \"" \o u.posts[j].title \o "\" is not published."

C8_Witness ==
    /\ rendered.kind = "list"
    /\ Len(rendered.blocks) = 2
    /\ \E j, k \in 1..Len(hook.data.users[1].posts) :
          /\ hook.data.users[1].posts[j].published
          /\ ~hook.data.users[1].posts[k].published

\* C9 as stated: whenever WithApollo renders without an apolloClient prop, the
\* client it uses has a cache restored from that render's apolloState.
C9_CacheFromRenderState ==
    (lastRender.client # Null /\ ~lastRender.prop)
        => clients[lastRender.client].restored = DefaultState(lastRender.apolloState)

\* C9 amended: a render without an apolloClient prop uses, on the server, a
\* client created for it whose cache is restored from that render's
\* apolloState; in the browser it uses globalApolloClient, the only client,
\* whose cache was restored by the first call of initApolloClient -- from this
\* render's apolloState only if this render is that first call.
C9_CacheFromFirstState ==
    (lastRender.client # Null /\ ~lastRender.prop)
        => IF ~window
           THEN clients[lastRender.client].restored = DefaultState(lastRender.apolloState)
           ELSE /\ lastRender.client = globalApolloClient
                /\ Len(clients) = 1
                /\ Len(returned) = 1
                      => clients[1].restored = DefaultState(lastRender.apolloState)

C9_Witness ==
    /\ window
    /\ ~lastRender.prop
    /\ lastRender.client = 1
    /\ Len(returned) >= 2
    /\ lastRender.apolloState.defined
    /\ lastRender.apolloState.keys # clients[1].restored

\* C10: on the server with ssr enabled and the response not finished, the
\* getDataFromTree step always ends in the return of page props with the
\* apolloState extracted from the request's client, after Head.rewind, and a
\* thrown error is only logged; with the response finished, getInitialProps
\* returns the page props alone and getDataFromTree is never run.
C10_GetInitialPropsOutcome ==
    [][\A r \in Requests :
          /\ (reqs[r].pc = "awaitTree" /\ reqs'[r] # reqs[r])
                => (/\ ~window /\ ssr /\ ~reqs[r].finished
                    /\ reqs'[r].pc = "returned"
                    /\ reqs'[r].ranTree
                    /\ reqs'[r].rewound
                    /\ reqs'[r].threw => reqs'[r].logged
                    /\ reqs'[r].result = "pagePropsAndApolloState"
                    /\ reqs'[r].apolloState = StateOf(clients'[reqs[r].client].cache))
          /\ (reqs[r].pc = "awaitPageProps" /\ reqs'[r].finished)
                => (/\ reqs'[r].pc = "returned"
                    /\ reqs'[r].result = "pageProps"
                    /\ reqs'[r].apolloState = NoState
                    /\ ~reqs'[r].ranTree)
          /\ (~window /\ ssr /\ reqs[r].pc = "awaitPageProps" /\ reqs'[r] # reqs[r]
                 /\ ~reqs'[r].finished)
                => reqs'[r].pc = "awaitTree"]_vars

C10_Witness ==
    /\ ~window
    /\ ssr
    /\ \E r1, r2 \in Requests :
          /\ reqs[r1].pc = "returned" /\ reqs[r1].threw /\ reqs[r1].rewound
          /\ reqs[r1].apolloState.defined
          /\ reqs[r2].pc = "returned" /\ reqs[r2].finished

====
